---- MODULE Spec2Model ----
(***************************************************************************)
(* DeviceTracker (src/e2ee/DeviceTracker.ts): the device-list tracker of   *)
(* the end-to-end encryption layer.                                        *)
(*                                                                         *)
(* updateUsersDeviceLists is an async function on a single-threaded event  *)
(* loop: it runs without interruption between two awaits.  Every action    *)
(* below is one such uninterrupted run: the completion of the collaborator *)
(* call the pass is suspended on, followed by everything the code does up  *)
(* to the next await.  A call is identified by a number; the promise a     *)
(* call creates at line 43 is identified by the number of that call.       *)
(***************************************************************************)
EXTENDS Naturals, Sequences, FiniteSets, TLC

\* ------------------------------------------------------------------ bounds
\* Update calls (direct ones and those queued by flagUsersOutdated).
MaxCalls == 2
\* flagUsersOutdated calls.
MaxFlags == 1
\* The specification of passes released together (SpecHerd): its update calls.
MaxHerdCalls == 4
\* The specification of passes over arbitrary devices (SpecSeq): its update calls.
MaxSeqCalls == 3

Users == {"u1", "u2"}
Devices == {"d1", "d2"}
Keys == {"E1", "E2"}
\* A key slot, a signature slot or a registry entry that is undefined.
NoKey == "none"
NoCall == 0

Max(a, b) == IF a > b THEN a ELSE b
Calls == 1..Max(MaxCalls, Max(MaxHerdCalls, MaxSeqCalls))
Flags == 1..MaxFlags

\* ------------------------------------------------------------------ data
\* A device as /keys/query returns it.  ed and curve are what
\* device.keys["ed25519:<deviceId>"] and device.keys["curve25519:<deviceId>"]
\* evaluate to, sig is device.signatures?.[userId]?.["ed25519:<deviceId>"]:
\* a signature is named by the key that made it.
UserDevice ==
    [user_id : Users, device_id : Devices, ed : Keys \cup {NoKey},
     curve : {"C1", NoKey}, sig : Keys \cup {NoKey}]

\* The sequences without repetition over S, of length at most n.
SeqsNoDup(S, n) ==
    UNION {{s \in [1..k -> S] : \A i, j \in 1..k : s[i] = s[j] => i = j} : k \in 0..n}

\* resp.device_keys[userId] with the device ids ks, in the order of
\* Object.keys: the device listed as d of user u is one of devicesAt[u][d].
RECURSIVE DeviceListsOver(_, _, _)
DeviceListsOver(devicesAt, u, ks) ==
    IF ks = <<>> THEN {<<>>}
    ELSE {<<[deviceId |-> Head(ks), device |-> d]>> \o rest :
            d \in devicesAt[u][Head(ks)],
            rest \in DeviceListsOver(devicesAt, u, Tail(ks))}

\* resp.device_keys[userId]: any of the devices that devicesAt lists for u, in
\* any order.
DeviceLists(devicesAt, u) ==
    UNION {DeviceListsOver(devicesAt, u, ks) :
           ks \in SeqsNoDup({d \in Devices : devicesAt[u][d] # {}}, Cardinality(Devices))}

\* resp.device_keys with the user ids us, in the order of Object.keys.
RECURSIVE DeviceKeysOver(_, _)
DeviceKeysOver(devicesAt, us) ==
    IF us = <<>> THEN {<<>>}
    ELSE {<<[userId |-> Head(us), devices |-> ds]>> \o rest :
            ds \in DeviceLists(devicesAt, Head(us)),
            rest \in DeviceKeysOver(devicesAt, Tail(us))}

\* resp.device_keys: any of the users of us, in any order, each with any of the
\* devices that devicesAt lists for the user.
DeviceKeys(devicesAt, us) ==
    UNION {DeviceKeysOver(devicesAt, o) : o \in SeqsNoDup(us, Cardinality(us))}

\* ------------------------------------------------------------------ state
VARIABLES
    deviceListUpdates,  \* line 10: user -> the call whose promise is registered
    promise,            \* call -> state of the promise it created at line 43
    result,             \* call -> state of the promise updateUsersDeviceLists returned
    pc,                 \* call -> the await the call is suspended on
    failed,             \* call -> the collaborator whose error ended its executor
    userIds,            \* call -> the users it was asked to update
    existingPromises,   \* call -> line 38: the promises it waits for
    resp,               \* call -> line 44: resp.device_keys
    ui,                 \* call -> position of the loop of line 45
    di,                 \* call -> position of the loop of line 47
    validated,          \* call -> line 46
    store,              \* cryptoStore: user -> the devices stored for the user
    outdated,           \* cryptoStore: the users flagged as outdated
    fpc,                \* flagUsersOutdated call -> its state
    fids,               \* flagUsersOutdated call -> its userIds
    fresync,            \* flagUsersOutdated call -> its resync
    queuedBy,           \* call -> the flagUsersOutdated call that made it (line 25)
    overlapped,         \* history: call -> the passes in progress for one of its users when it was made
    firstTrusted,       \* history: user, device -> the first Ed25519 key stored for the device
    lookedUp,           \* history: call, user -> line 38: the registry entry the call found
    lastCommitted,      \* history: user -> the devices handed to the last store write for the user
    committed,          \* history: call, user -> the devices the call's pass has stored for the user
    lastCompleted       \* history: user -> the devices stored for the user by the last pass to resolve

locals == <<resp, ui, di, validated>>
passes == <<deviceListUpdates, promise, result, pc, failed, userIds, existingPromises,
            queuedBy, overlapped, lookedUp>>
flags == <<fpc, fids, fresync>>
stored == <<store, firstTrusted, lastCommitted>>
record == <<committed, lastCompleted>>
vars == <<passes, locals, stored, record, outdated, flags>>

\* Nothing looked up, nothing stored yet.  The devices stored by a pass are
\* held as a set: empty, or the one list of devices.
NoLookup == [u \in Users |-> NoCall]
NoCommit == [u \in Users |-> {}]

Init ==
    /\ deviceListUpdates = [u \in Users |-> NoCall]
    /\ promise = [c \in Calls |-> "none"]
    /\ result = [c \in Calls |-> "none"]
    /\ pc = [c \in Calls |-> "idle"]
    /\ failed = [c \in Calls |-> "no"]
    /\ userIds = [c \in Calls |-> {}]
    /\ existingPromises = [c \in Calls |-> {}]
    /\ resp = [c \in Calls |-> <<>>]
    /\ ui = [c \in Calls |-> 0]
    /\ di = [c \in Calls |-> 0]
    /\ validated = [c \in Calls |-> <<>>]
    /\ store = [u \in Users |-> <<>>]
    /\ outdated = {}
    /\ fpc = [f \in Flags |-> "idle"]
    /\ fids = [f \in Flags |-> {}]
    /\ fresync = [f \in Flags |-> FALSE]
    /\ queuedBy = [c \in Calls |-> 0]
    /\ overlapped = [c \in Calls |-> {}]
    /\ firstTrusted = [u \in Users |-> [d \in Devices |-> NoKey]]
    /\ lookedUp = [c \in Calls |-> NoLookup]
    /\ lastCommitted = NoCommit
    /\ committed = [c \in Calls |-> NoCommit]
    /\ lastCompleted = NoCommit

\* ------------------------------------------------------------------ checks
\* IdentityOk, were only the user compared at line 49.
IdentityOkForUser(userId, deviceId, device) ==
    device.user_id = userId

\* Line 49, negated: the device names the user and device it is listed under.
IdentityOk(userId, deviceId, device) ==
    device.user_id = userId /\ device.device_id = deviceId

\* KeysComplete, were only the Ed25519 key tested at line 57.
KeysCompleteEd25519(device) ==
    device.ed # NoKey

\* Line 57, negated: both keys are there.
KeysComplete(device) ==
    device.ed # NoKey /\ device.curve # NoKey

\* Line 63: currentDevices.find(d => d.device_id === deviceId), as the set
\* holding the first match, or the empty set for undefined.
FindDevice(currentDevices, deviceId) ==
    LET hits == {i \in 1..Len(currentDevices) : currentDevices[i].device_id = deviceId}
    IN  IF hits = {} THEN {}
        ELSE {currentDevices[CHOOSE i \in hits : \A j \in hits : i <= j]}

\* KeyChanged, were the comparison of line 67 left out.
KeyChangeIgnored(currentDevices, deviceId, ed25519) ==
    FALSE

\* KeyChanged, were the test of line 65 left out: a device that is not stored
\* has the key undefined, which differs from every key.
KeyChangedOrUnknown(currentDevices, deviceId, ed25519) ==
    \A existingDevice \in FindDevice(currentDevices, deviceId) :
        existingDevice.ed # ed25519

\* Lines 65-71: the stored device has another Ed25519 key.
KeyChanged(currentDevices, deviceId, ed25519) ==
    \E existingDevice \in FindDevice(currentDevices, deviceId) :
        existingDevice.ed # ed25519

\* crypto.verifySignature(device, ed25519, signature): the signature over the
\* device was made by that key.
VerifySignature(device, ed25519, signature) ==
    signature = ed25519

\* Lines 47-60: from position `from` of the device loop, the position of the
\* first device that reaches the store read of line 62, or Len(devices) + 1.
RECURSIVE NextToRead(_, _, _)
NextToRead(userId, devices, from) ==
    IF from > Len(devices) THEN from
    ELSE IF /\ IdentityOk(userId, devices[from].deviceId, devices[from].device)
            /\ KeysComplete(devices[from].device)
         THEN from
         ELSE NextToRead(userId, devices, from + 1)

\* Lines 46-86: the validated devices of user userId, for the listed devices
\* in the order given, when every store read of the pass answers currentDevices.
RECURSIVE ValidatedOf(_, _, _)
ValidatedOf(userId, currentDevices, devices) ==
    IF devices = <<>> THEN <<>>
    ELSE LET deviceId == Head(devices).deviceId
             device == Head(devices).device
             rest == ValidatedOf(userId, currentDevices, Tail(devices))
         IN  IF /\ IdentityOk(userId, deviceId, device)
                /\ KeysComplete(device)
                /\ ~KeyChanged(currentDevices, deviceId, device.ed)
                /\ device.sig # NoKey
                /\ VerifySignature(device, device.ed, device.sig)
             THEN <<device>> \o rest
             ELSE rest

\* ------------------------------------------------------------------ steps of a pass
\* Lines 43-44 and 92-93: the promise is created, its executor runs up to the
\* fetch, the promise is registered under every user, the call awaits it.
IssueFetch(c, ids) ==
    /\ pc' = [pc EXCEPT ![c] = "fetching"]
    /\ promise' = [promise EXCEPT ![c] = "pending"]
    /\ deviceListUpdates' = [u \in Users |-> IF u \in ids THEN c ELSE deviceListUpdates[u]]
    /\ existingPromises' = [existingPromises EXCEPT ![c] = {}]
    /\ lookedUp' = [lookedUp EXCEPT ![c] = NoLookup]

\* Lines 34-41: updateUsersDeviceLists(ids) is called, as call c, by
\* flagUsersOutdated call f (0: by somebody else).  Calls are numbered in the
\* order they are made.
Begin(c, ids, f) ==
    LET existing == {deviceListUpdates[u] : u \in ids} \ {NoCall}
    IN  /\ pc[c] = "idle"
        /\ \A b \in Calls : b < c => pc[b] # "idle"
        /\ userIds' = [userIds EXCEPT ![c] = ids]
        /\ queuedBy' = [queuedBy EXCEPT ![c] = f]
        /\ overlapped' = [overlapped EXCEPT ![c] =
               {a \in Calls : promise[a] = "pending" /\ userIds[a] \cap ids # {}}]
        /\ result' = [result EXCEPT ![c] = "pending"]
        /\ IF existing = {}
           THEN IssueFetch(c, ids)
           ELSE /\ pc' = [pc EXCEPT ![c] = "waiting"]
                /\ existingPromises' = [existingPromises EXCEPT ![c] = existing]
                /\ lookedUp' = [lookedUp EXCEPT ![c] =
                       [u \in Users |-> IF u \in ids THEN deviceListUpdates[u] ELSE NoCall]]
                /\ UNCHANGED <<promise, deviceListUpdates>>

\* The loops of lines 45 and 47 go on at user u, device d, with v validated,
\* up to the next await: the store read of line 62,
\* the store write of line 88, or the end, line 90, where the promise resolves
\* and with it the call (line 93).  w is what the pass has stored so far.
Goto(c, r, u, d, v, w) ==
    IF u > Len(r)
    THEN /\ pc' = [pc EXCEPT ![c] = "done"]
         /\ promise' = [promise EXCEPT ![c] = "resolved"]
         /\ result' = [result EXCEPT ![c] = "resolved"]
         /\ resp' = [resp EXCEPT ![c] = <<>>]
         /\ ui' = [ui EXCEPT ![c] = 0]
         /\ di' = [di EXCEPT ![c] = 0]
         /\ validated' = [validated EXCEPT ![c] = <<>>]
         /\ userIds' = [userIds EXCEPT ![c] = {}]
         /\ overlapped' = [overlapped EXCEPT ![c] = {}]
         /\ committed' = [committed EXCEPT ![c] = NoCommit]
         /\ lastCompleted' = [x \in Users |-> IF w[x] # {} THEN w[x] ELSE lastCompleted[x]]
    ELSE LET n == NextToRead(r[u].userId, r[u].devices, d)
         IN  /\ pc' = [pc EXCEPT ![c] = IF n <= Len(r[u].devices) THEN "reading" ELSE "writing"]
             /\ resp' = [resp EXCEPT ![c] = r]
             /\ ui' = [ui EXCEPT ![c] = u]
             /\ di' = [di EXCEPT ![c] = n]
             /\ validated' = [validated EXCEPT ![c] = v]
             /\ committed' = [committed EXCEPT ![c] = w]
             /\ UNCHANGED <<promise, result, userIds, overlapped, lastCompleted>>

\* A collaborator call of the executor throws: the async executor's own promise
\* rejects, which nothing observes.  The promise of line 43 is neither resolved
\* nor rejected, and the call stays at line 93.
Throw(c, what) ==
    /\ pc' = [pc EXCEPT ![c] = "hung"]
    /\ failed' = [failed EXCEPT ![c] = what]
    /\ resp' = [resp EXCEPT ![c] = <<>>]
    /\ ui' = [ui EXCEPT ![c] = 0]
    /\ di' = [di EXCEPT ![c] = 0]
    /\ validated' = [validated EXCEPT ![c] = <<>>]
    /\ userIds' = [userIds EXCEPT ![c] = {}]
    /\ overlapped' = [overlapped EXCEPT ![c] = {}]
    /\ committed' = [committed EXCEPT ![c] = NoCommit]
    /\ UNCHANGED <<deviceListUpdates, promise, result, existingPromises,
                   queuedBy, lookedUp, stored, lastCompleted, outdated, flags>>

\* ------------------------------------------------------------------ updateUsersDeviceLists
\* updateUsersDeviceLists(ids) is called.
Start(c, ids) ==
    /\ Begin(c, ids, 0)
    /\ UNCHANGED <<failed, locals, stored, record, outdated, flags>>

\* Line 40: every promise waited for is settled.  Promise.all rejects if one of
\* them is rejected, and the call with it.
Resume(c) ==
    /\ pc[c] = "waiting"
    /\ \A h \in existingPromises[c] : promise[h] # "pending"
    /\ IF \E h \in existingPromises[c] : promise[h] = "rejected"
       THEN /\ pc' = [pc EXCEPT ![c] = "done"]
            /\ result' = [result EXCEPT ![c] = "rejected"]
            /\ existingPromises' = [existingPromises EXCEPT ![c] = {}]
            /\ userIds' = [userIds EXCEPT ![c] = {}]
            /\ overlapped' = [overlapped EXCEPT ![c] = {}]
            /\ lookedUp' = [lookedUp EXCEPT ![c] = NoLookup]
            /\ UNCHANGED <<promise, deviceListUpdates>>
       ELSE /\ IssueFetch(c, userIds[c])
            /\ UNCHANGED <<result, userIds, overlapped>>
    /\ UNCHANGED <<failed, queuedBy, locals, stored, record, outdated, flags>>

\* Line 44: getUserDevices answers with r.
FetchReturns(c, r) ==
    /\ pc[c] = "fetching"
    /\ Goto(c, r, 1, 1, <<>>, committed[c])
    /\ UNCHANGED <<deviceListUpdates, failed, existingPromises, queuedBy, lookedUp,
                   stored, outdated, flags>>

\* FetchFails, were the devices of the users asked for dropped on a failed fetch.
FetchFailsClearing(c) ==
    /\ pc[c] = "fetching"
    /\ store' = [u \in Users |-> IF u \in userIds[c] THEN <<>> ELSE store[u]]
    /\ pc' = [pc EXCEPT ![c] = "hung"]
    /\ failed' = [failed EXCEPT ![c] = "fetch"]
    /\ userIds' = [userIds EXCEPT ![c] = {}]
    /\ overlapped' = [overlapped EXCEPT ![c] = {}]
    /\ UNCHANGED <<deviceListUpdates, promise, result, existingPromises, queuedBy,
                   lookedUp, locals, firstTrusted, lastCommitted, record, outdated, flags>>

\* Line 44: getUserDevices throws.
FetchFails(c) ==
    /\ pc[c] = "fetching"
    /\ Throw(c, "fetch")

\* ReadReturns, were the loop of line 47 left (break) at lines 69 and 76
\* instead of continued.
ReadReturnsBreaking(c) ==
    LET r == resp[c]
        userId == r[ui[c]].userId
        deviceId == r[ui[c]].devices[di[c]].deviceId
        device == r[ui[c]].devices[di[c]].device
        currentDevices == store[userId]
    IN  /\ pc[c] = "reading"
        /\ IF KeyChanged(currentDevices, deviceId, device.ed) \/ device.sig = NoKey
           THEN Goto(c, r, ui[c], Len(r[ui[c]].devices) + 1, validated[c], committed[c])
           ELSE /\ pc' = [pc EXCEPT ![c] = "verifying"]
                /\ UNCHANGED <<promise, result, userIds, overlapped, locals, record>>
        /\ UNCHANGED <<deviceListUpdates, failed, existingPromises, queuedBy, lookedUp,
                       stored, outdated, flags>>

\* Lines 62-77: cryptoStore.getUserDevices answers.
ReadReturns(c) ==
    LET r == resp[c]
        userId == r[ui[c]].userId
        deviceId == r[ui[c]].devices[di[c]].deviceId
        device == r[ui[c]].devices[di[c]].device
        currentDevices == store[userId]
    IN  /\ pc[c] = "reading"
        /\ IF KeyChanged(currentDevices, deviceId, device.ed) \/ device.sig = NoKey
           THEN Goto(c, r, ui[c], di[c] + 1, validated[c], committed[c])
           ELSE /\ pc' = [pc EXCEPT ![c] = "verifying"]
                /\ UNCHANGED <<promise, result, userIds, overlapped, locals, record>>
        /\ UNCHANGED <<deviceListUpdates, failed, existingPromises, queuedBy, lookedUp,
                       stored, outdated, flags>>

\* Line 62: cryptoStore.getUserDevices throws.
ReadFails(c) ==
    /\ pc[c] = "reading"
    /\ Throw(c, "read")

\* Lines 79-85: crypto.verifySignature answers.
VerifyReturns(c) ==
    LET r == resp[c]
        device == r[ui[c]].devices[di[c]].device
        validSignature == VerifySignature(device, device.ed, device.sig)
        v == IF validSignature THEN Append(validated[c], device) ELSE validated[c]
    IN  /\ pc[c] = "verifying"
        /\ Goto(c, r, ui[c], di[c] + 1, v, committed[c])
        /\ UNCHANGED <<deviceListUpdates, failed, existingPromises, queuedBy, lookedUp,
                       stored, outdated, flags>>

\* Line 79: crypto.verifySignature throws.
VerifyFails(c) ==
    /\ pc[c] = "verifying"
    /\ Throw(c, "verify")

\* What cryptoStore.setUserDevices(userId, devices) leaves stored for a user
\* whose stored devices were old: the store replaces them.
SetUserDevices(old, devices) ==
    devices

\* The first Ed25519 key stored for each device of a user, once devices is stored.
FirstTrusted(first, devices) ==
    [d \in Devices |->
        IF first[d] # NoKey \/ FindDevice(devices, d) = {} THEN first[d]
        ELSE (CHOOSE dev \in FindDevice(devices, d) : TRUE).ed]

\* WriteReturns, were the validated devices added to the stored ones.
WriteReturnsMerging(c) ==
    LET r == resp[c]
        userId == r[ui[c]].userId
    IN  /\ pc[c] = "writing"
        /\ store' = [store EXCEPT
               ![userId] = SetUserDevices(store[userId], store[userId] \o validated[c])]
        /\ firstTrusted' = [firstTrusted EXCEPT
               ![userId] = FirstTrusted(firstTrusted[userId], store'[userId])]
        /\ lastCommitted' = [lastCommitted EXCEPT ![userId] = {validated[c]}]
        /\ Goto(c, r, ui[c] + 1, 1, <<>>, [committed[c] EXCEPT ![userId] = {validated[c]}])
        /\ UNCHANGED <<deviceListUpdates, failed, existingPromises, queuedBy, lookedUp,
                       outdated, flags>>

\* WriteReturns, were the store write of line 88 left out for a user none of
\* whose devices is validated.
WriteReturnsSkippingEmpty(c) ==
    LET r == resp[c]
        userId == r[ui[c]].userId
    IN  /\ pc[c] = "writing"
        /\ store' = [store EXCEPT ![userId] =
               IF validated[c] = <<>> THEN store[userId]
               ELSE SetUserDevices(store[userId], validated[c])]
        /\ firstTrusted' = [firstTrusted EXCEPT
               ![userId] = FirstTrusted(firstTrusted[userId], store'[userId])]
        /\ lastCommitted' = [lastCommitted EXCEPT ![userId] = {validated[c]}]
        /\ Goto(c, r, ui[c] + 1, 1, <<>>, [committed[c] EXCEPT ![userId] = {validated[c]}])
        /\ UNCHANGED <<deviceListUpdates, failed, existingPromises, queuedBy, lookedUp,
                       outdated, flags>>

\* WriteReturns, were the users asked for that the response leaves out stored
\* with no devices.
WriteReturnsClearingOmitted(c) ==
    LET r == resp[c]
        userId == r[ui[c]].userId
        listed == {r[i].userId : i \in 1..Len(r)}
    IN  /\ pc[c] = "writing"
        /\ store' = [u \in Users |->
               IF u = userId THEN SetUserDevices(store[u], validated[c])
               ELSE IF u \in userIds[c] \ listed THEN SetUserDevices(store[u], <<>>)
               ELSE store[u]]
        /\ firstTrusted' = [firstTrusted EXCEPT
               ![userId] = FirstTrusted(firstTrusted[userId], store'[userId])]
        /\ lastCommitted' = [lastCommitted EXCEPT ![userId] = {validated[c]}]
        /\ Goto(c, r, ui[c] + 1, 1, <<>>, [committed[c] EXCEPT ![userId] = {validated[c]}])
        /\ UNCHANGED <<deviceListUpdates, failed, existingPromises, queuedBy, lookedUp,
                       outdated, flags>>

\* Lines 88-90: cryptoStore.setUserDevices(userId, validated) answers.
WriteReturns(c) ==
    LET r == resp[c]
        userId == r[ui[c]].userId
    IN  /\ pc[c] = "writing"
        /\ store' = [store EXCEPT ![userId] = SetUserDevices(store[userId], validated[c])]
        /\ firstTrusted' = [firstTrusted EXCEPT
               ![userId] = FirstTrusted(firstTrusted[userId], store'[userId])]
        /\ lastCommitted' = [lastCommitted EXCEPT ![userId] = {validated[c]}]
        /\ Goto(c, r, ui[c] + 1, 1, <<>>, [committed[c] EXCEPT ![userId] = {validated[c]}])
        /\ UNCHANGED <<deviceListUpdates, failed, existingPromises, queuedBy, lookedUp,
                       outdated, flags>>

\* Line 88: cryptoStore.setUserDevices throws.
WriteFails(c) ==
    /\ pc[c] = "writing"
    /\ Throw(c, "write")

\* ------------------------------------------------------------------ flagUsersOutdated
\* flagUsersOutdated(ids, resync) is called, up to the await of line 21.  Calls
\* are numbered in the order they are made.
FlagStart(f, ids, resync) ==
    /\ fpc[f] = "idle"
    /\ \A g \in Flags : g < f => fpc[g] # "idle"
    /\ fpc' = [fpc EXCEPT ![f] = "marking"]
    /\ fids' = [fids EXCEPT ![f] = ids]
    /\ fresync' = [fresync EXCEPT ![f] = resync]
    /\ UNCHANGED <<passes, locals, stored, record, outdated>>

\* The call the next updateUsersDeviceLists will be.
NextCall ==
    CHOOSE c \in Calls \cup {Cardinality(Calls) + 1} :
        /\ c \in Calls => pc[c] = "idle"
        /\ \A b \in Calls : b < c => pc[b] # "idle"

\* FlagMarked, were the update of line 25 awaited: flagUsersOutdated is left
\* waiting for the pass.
FlagMarkedAwaiting(f) ==
    /\ fpc[f] = "marking"
    /\ outdated' = outdated \cup fids[f]
    /\ IF fresync[f]
       THEN /\ NextCall <= MaxCalls
            /\ Begin(NextCall, fids[f], f)
            /\ fpc' = [fpc EXCEPT ![f] = "awaiting"]
       ELSE /\ fpc' = [fpc EXCEPT ![f] = "returned"]
            /\ UNCHANGED <<deviceListUpdates, promise, result, pc, userIds,
                           existingPromises, queuedBy, overlapped, lookedUp>>
    /\ fids' = [fids EXCEPT ![f] = {}]
    /\ fresync' = [fresync EXCEPT ![f] = FALSE]
    /\ UNCHANGED <<failed, locals, stored, record>>

\* FlagMarked, were the store write of line 21 not awaited: flagUsersOutdated
\* goes on before the users are flagged.
FlagMarkedUnawaited(f) ==
    /\ fpc[f] = "marking"
    /\ outdated' = outdated
    /\ fpc' = [fpc EXCEPT ![f] = "returned"]
    /\ IF fresync[f]
       THEN /\ NextCall <= MaxCalls
            /\ Begin(NextCall, fids[f], f)
       ELSE UNCHANGED <<deviceListUpdates, promise, result, pc, userIds,
                        existingPromises, queuedBy, overlapped, lookedUp>>
    /\ fids' = [fids EXCEPT ![f] = {}]
    /\ fresync' = [fresync EXCEPT ![f] = FALSE]
    /\ UNCHANGED <<failed, locals, stored, record>>

\* Lines 21-26: cryptoStore.flagUsersOutdated answers; with resync the update
\* is called and not awaited, and flagUsersOutdated returns.
FlagMarked(f) ==
    /\ fpc[f] = "marking"
    /\ outdated' = outdated \cup fids[f]
    /\ fpc' = [fpc EXCEPT ![f] = "returned"]
    /\ IF fresync[f]
       THEN /\ NextCall <= MaxCalls
            /\ Begin(NextCall, fids[f], f)
       ELSE UNCHANGED <<deviceListUpdates, promise, result, pc, userIds,
                        existingPromises, queuedBy, overlapped, lookedUp>>
    /\ fids' = [fids EXCEPT ![f] = {}]
    /\ fresync' = [fresync EXCEPT ![f] = FALSE]
    /\ UNCHANGED <<failed, locals, stored, record>>

\* Line 21: cryptoStore.flagUsersOutdated throws, and flagUsersOutdated with it.
FlagFails(f) ==
    /\ fpc[f] = "marking"
    /\ fpc' = [fpc EXCEPT ![f] = "failed"]
    /\ fids' = [fids EXCEPT ![f] = {}]
    /\ fresync' = [fresync EXCEPT ![f] = FALSE]
    /\ UNCHANGED <<passes, locals, stored, record, outdated>>

\* ------------------------------------------------------------------ specifications
\* The device user u has as d with Ed25519 key k, as the user's homeserver
\* lists it: under its own name, with both keys, signed by k.
OwnDevice(u, d, k) ==
    [user_id |-> u, device_id |-> d, ed |-> k, curve |-> "C1", sig |-> k]

\* The devices listed as d of u: the own devices with a key of ks, for d in ds.
OwnDevices(ds, ks) ==
    [u \in Users |-> [d \in Devices |->
        IF d \in ds THEN {OwnDevice(u, d, k) : k \in ks} ELSE {}]]

\* The devices listed as d of u: anything.
AnyDevices ==
    [u \in Users |-> [d \in Devices |-> UserDevice]]

\* The steps of update call c once it is made; its fetch answers with one of
\* responses.
Steps(c, responses) ==
    \/ Resume(c)
    \/ pc[c] = "fetching" /\ \E r \in responses : FetchReturns(c, r)
    \/ FetchFails(c)
    \/ ReadReturns(c)
    \/ ReadFails(c)
    \/ VerifyReturns(c)
    \/ VerifyFails(c)
    \/ WriteReturns(c)
    \/ WriteFails(c)

\* The steps of flagUsersOutdated call f once it is made.
FlagSteps(f) ==
    \/ FlagMarked(f)
    \/ FlagFails(f)

\* Spec: update calls for any users, in any interleaving; every user has the
\* one device d1 with the one key E1.
IdSets == SUBSET Users \ {{}}
Responses == DeviceKeys(OwnDevices({"d1"}, {"E1"}), Users)

Next ==
    \/ \E c \in 1..MaxCalls, ids \in IdSets : Start(c, ids)
    \/ \E c \in 1..MaxCalls : Steps(c, Responses)

Spec == Init /\ [][Next]_vars

\* FairSpec: Spec, where every collaborator call is answered, with a result or
\* with an error, and every continuation that is ready runs.
FairSpec ==
    /\ Spec
    /\ \A c \in 1..MaxCalls : WF_vars(Steps(c, Responses))

\* SpecFlag: flagUsersOutdated calls and update calls for the one user u1, in
\* any interleaving; the user has the one device d1 with the one key E1.
FlagIdSets == {{"u1"}}
FlagResponses == DeviceKeys(OwnDevices({"d1"}, {"E1"}), {"u1"})

NextFlag ==
    \/ \E f \in Flags, ids \in FlagIdSets, resync \in BOOLEAN : FlagStart(f, ids, resync)
    \/ \E f \in Flags : FlagSteps(f)
    \/ \E c \in 1..MaxCalls, ids \in FlagIdSets : Start(c, ids)
    \/ \E c \in 1..MaxCalls : Steps(c, FlagResponses)

SpecFlag == Init /\ [][NextFlag]_vars

\* SpecHerd: update calls for the one user u1, in any interleaving; the user
\* has the one device d1, under either key.
HerdIdSets == {{"u1"}}
HerdResponses == DeviceKeys(OwnDevices({"d1"}, Keys), {"u1"})

NextHerd ==
    \/ \E c \in 1..MaxHerdCalls, ids \in HerdIdSets : Start(c, ids)
    \/ \E c \in 1..MaxHerdCalls : Steps(c, HerdResponses)

SpecHerd == Init /\ [][NextHerd]_vars

\* SpecSeq: update calls for the one user u1, each made when the one before
\* has ended; the response lists anything as the devices of u1.
SeqIdSets == {{"u1"}}
SeqResponses == DeviceKeys(AnyDevices, {"u1"})

NoPassInProgress == \A b \in Calls : pc[b] \in {"idle", "done", "hung"}

NextSeq ==
    \/ NoPassInProgress /\ \E c \in 1..MaxSeqCalls, ids \in SeqIdSets : Start(c, ids)
    \/ \E c \in 1..MaxSeqCalls : Steps(c, SeqResponses)

SpecSeq == Init /\ [][NextSeq]_vars

\* ------------------------------------------------------------------ properties
\* The user whose devices call c is evaluating, and the devices listed for the user.
CurrentUser(c) == resp[c][ui[c]].userId
CurrentDevices(c) == resp[c][ui[c]].devices

\* The step in which the store write of call c for its current user is done.
Commits(c) ==
    /\ pc[c] = "writing"
    /\ pc'[c] = "done" \/ ui'[c] = ui[c] + 1

Range(seq) == {seq[i] : i \in 1..Len(seq)}

\* The properties state the four checks in their own words, on a listed device
\* e (a device id and the device listed under it) of user u.
\* Identity: the device names the user and the device id it is listed under.
NamesItself(u, e) ==
    e.device.user_id = u /\ e.device.device_id = e.deviceId

\* Key completeness: an Ed25519 and a Curve25519 key.
HasBothKeys(e) ==
    e.device.ed \in Keys /\ e.device.curve = "C1"

\* Pinning: the devices current hold the device id with another Ed25519 key.
StoredWithOtherKey(current, e) ==
    \E d \in Range(current) : d.device_id = e.deviceId /\ d.ed # e.device.ed

\* Pinning: the devices current do not hold the device id.
NotStored(current, e) ==
    \A d \in Range(current) : d.device_id # e.deviceId

\* Self-signature: a signature, made by the device's own Ed25519 key.
SelfSigned(e) ==
    e.device.sig \in Keys /\ e.device.sig = e.device.ed

PassesChecks(u, current, e) ==
    /\ NamesItself(u, e)
    /\ HasBothKeys(e)
    /\ ~StoredWithOtherKey(current, e)
    /\ SelfSigned(e)

\* C1: key pinning over histories.  Once a device has been stored for (user,
\* device) with Ed25519 key K, no later commit stores a device for the same
\* pair with another key: every stored device carries the first key ever
\* stored for its pair.
C1_KeyPinnedOverHistories ==
    \A u \in Users : \A d \in Range(store[u]) :
        firstTrusted[u][d.device_id] = d.ed

\* C2: when the directory fetch of a pass fails, the call that issued it
\* completes with failure and so does the promise registered for the pass.
C2_FetchFailureFailsHandle ==
    \A c \in Calls :
        failed[c] = "fetch" => promise[c] = "rejected" /\ result[c] = "rejected"

\* C3: a call that waited goes on to register its promise and to fetch,
\* whatever the outcome of the passes it waited for: once each of them has
\* ended, in success or in failure, the step that issues its fetch is enabled.
C3_WaiterIssuesFetch ==
    \A c \in Calls :
        (/\ pc[c] = "waiting"
         /\ \A h \in existingPromises[c] : pc[h] \in {"done", "hung"})
        => ENABLED (Resume(c) /\ pc'[c] = "fetching")

\* C4: ordering of passes.  If call b was made when pass a had registered its
\* promise under a user b asks for and had not finished, b has not issued its
\* fetch while a is still in progress (a has ended once b fetches).
C4_FetchAfterOverlappedPass ==
    \A b \in Calls :
        promise[b] # "none" =>
            \A a \in overlapped[b] : pc[a] \in {"done", "hung"}

\* C5: commit is a full replacement.  Right after a pass commits user u, the
\* devices stored for u are exactly the listed devices of u that passed the
\* identity, key, pinning and signature checks, each once: nothing stored
\* before survives unless it is one of them.
C5_CommitReplaces ==
    [][\A c \in Calls :
          Commits(c) =>
              LET u == CurrentUser(c)
                  passed == {e \in Range(CurrentDevices(c)) : PassesChecks(u, store[u], e)}
              IN  /\ Range(store'[u]) = {e.device : e \in passed}
                  /\ Len(store'[u]) = Cardinality(passed)]_vars

\* A device (d1) that was stored for a user is gone and the user's other device is stored.
C5_Witness ==
    \E u \in Users :
        /\ firstTrusted[u]["d1"] # NoKey
        /\ {d.device_id : d \in Range(store[u])} = {"d2"}

\* C6: pinning rejection within one pass.  A listed device of (u, d) whose
\* Ed25519 key differs from the key stored for (u, d) is not in the set the
\* pass commits for u, valid self-signature or not: the set holds no device d.
C6_KeyChangeExcluded ==
    \A c \in Calls :
        pc[c] = "writing" =>
            \A e \in Range(CurrentDevices(c)) :
                (/\ NamesItself(CurrentUser(c), e)
                 /\ StoredWithOtherKey(store[CurrentUser(c)], e))
                => \A v \in Range(validated[c]) : v.device_id # e.deviceId

\* The second pass of the scenario: d1 is stored with one key, the response
\* lists d1 alone, self-signed with the other key, and the pass commits nothing.
C6_Witness ==
    \E c \in Calls :
        /\ pc[c] = "writing"
        /\ validated[c] = <<>>
        /\ Len(CurrentDevices(c)) = 1
        /\ \E e \in Range(CurrentDevices(c)) :
              /\ NamesItself(CurrentUser(c), e)
              /\ HasBothKeys(e)
              /\ SelfSigned(e)
              /\ StoredWithOtherKey(store[CurrentUser(c)], e)

\* C7: a failed directory fetch writes nothing.  The step in which the fetch
\* of a pass fails leaves every stored device set as it was, and the pass does
\* nothing after it.
C7_FailedFetchWritesNothing ==
    [][\A c \in Calls :
          failed'[c] = "fetch" =>
              /\ pc'[c] = "hung"
              /\ failed[c] # "fetch" => store' = store]_vars

\* A fetch has failed while devices were stored.
C7_Witness ==
    \E c \in Calls : failed[c] = "fetch" /\ \E u \in Users : store[u] # <<>>

\* C8: every call completes, in success or in failure, provided every
\* collaborator call is answered with a result or an error.
C8_EveryCallCompletes ==
    \A c \in Calls :
        (result[c] = "pending") ~> (result[c] \in {"resolved", "rejected"})

\* C9: flagUsersOutdated with resync returns without waiting for the pass it
\* starts.  In the step it returns the pass is made and still in progress, and
\* once it has returned nothing that becomes of the pass changes its outcome.
C9_FlagDoesNotWait ==
    [][\A f \in Flags :
          /\ (fpc[f] = "marking" /\ fresync[f] /\ fpc'[f] \notin {"marking", "failed"})
             => /\ fpc'[f] = "returned"
                /\ \E c \in Calls :
                      /\ pc[c] = "idle"
                      /\ queuedBy'[c] = f
                      /\ pc'[c] \in {"waiting", "fetching"}
                      /\ result'[c] = "pending"
          /\ fpc[f] = "returned" => fpc'[f] = "returned"]_vars

\* flagUsersOutdated has returned and the pass it started has failed, never to complete.
C9_Witness ==
    \E f \in Flags, c \in Calls :
        fpc[f] = "returned" /\ queuedBy[c] = f /\ pc[c] = "hung" /\ result[c] = "pending"

\* C10: trust on first use.  A listed device of (u, d) that names itself u and
\* d, has both keys and a self-signature that verifies, while no device d is
\* stored for u, is in the set the pass commits for u, whatever its Ed25519 key.
C10_TrustOnFirstUse ==
    \A c \in Calls :
        pc[c] = "writing" =>
            \A e \in Range(CurrentDevices(c)) :
                (/\ NamesItself(CurrentUser(c), e)
                 /\ HasBothKeys(e)
                 /\ NotStored(store[CurrentUser(c)], e)
                 /\ SelfSigned(e))
                => e.device \in Range(validated[c])

\* A device with key E2 is accepted on first use beside a stored device with key E1.
C10_Witness ==
    \E c \in Calls :
        /\ pc[c] = "writing"
        /\ \E d \in Range(store[CurrentUser(c)]) : d.ed = "E1"
        /\ \E e \in Range(CurrentDevices(c)) :
              /\ NotStored(store[CurrentUser(c)], e)
              /\ e.device.ed = "E2"
              /\ e.device \in Range(validated[c])

\* C11: identity consistency.  The set a pass commits for user u holds only
\* devices that name u as their user and are listed under the device id they
\* name, whatever the keys and the signature of a device listed under another
\* name: every device of the set is listed, as it is, under its own device id.
C11_IdentityConsistent ==
    \A c \in Calls :
        pc[c] = "writing" =>
            \A v \in Range(validated[c]) :
                /\ v.user_id = CurrentUser(c)
                /\ \E e \in Range(CurrentDevices(c)) :
                      e.deviceId = v.device_id /\ e.device = v

\* A pass is about to commit, and its response lists under d1 a device that
\* names itself d2, with both keys, a valid self-signature and no stored key
\* it differs from.
C11_Witness ==
    \E c \in Calls :
        /\ pc[c] = "writing"
        /\ \E e \in Range(CurrentDevices(c)) :
              /\ e.deviceId = "d1"
              /\ e.device.user_id = CurrentUser(c)
              /\ e.device.device_id = "d2"
              /\ HasBothKeys(e)
              /\ SelfSigned(e)
              /\ store[CurrentUser(c)] = <<>>

\* C12: key completeness and self-signature.  The set a pass commits holds no
\* device without an Ed25519 key, without a Curve25519 key, without a
\* signature in its own Ed25519 slot, or with one the verifier found invalid
\* (one that its own Ed25519 key did not make).
C12_KeysAndSignature ==
    \A c \in Calls :
        pc[c] = "writing" =>
            \A v \in Range(validated[c]) :
                /\ v.ed \in Keys
                /\ v.curve # NoKey
                /\ v.sig # NoKey
                /\ v.sig = v.ed

\* A pass is about to commit, and its response lists a device that lacks
\* only the Curve25519 key and a device whose signature only is invalid.
C12_Witness ==
    \E c \in Calls :
        /\ pc[c] = "writing"
        /\ \E e \in Range(CurrentDevices(c)) :
              /\ NamesItself(CurrentUser(c), e)
              /\ e.device.ed \in Keys /\ e.device.curve = NoKey
              /\ SelfSigned(e)
        /\ \E e \in Range(CurrentDevices(c)) :
              /\ NamesItself(CurrentUser(c), e)
              /\ HasBothKeys(e)
              /\ e.device.sig \in Keys /\ e.device.sig # e.device.ed

\* C13 as stated: the devices stored for a user are exactly the validated set
\* of the pass that resolved most recently among the resolved passes whose
\* response held the user.
C13_StoreOfLastCompletedPass ==
    \A u \in Users : \A devices \in lastCompleted[u] : store[u] = devices

\* C13, amended: the devices stored for a user are exactly the validated set
\* of the pass that committed the user most recently, whether or not that pass
\* has gone on to resolve; before any commit nothing is stored.
C13_StoreOfLastCommit ==
    \A u \in Users :
        /\ \A devices \in lastCommitted[u] : store[u] = devices
        /\ lastCommitted[u] = {} => store[u] = <<>>

\* A pass has resolved with devices for a user, and a later commit for the
\* user, by a pass that has not resolved, holds other devices.
C13_Witness ==
    \E u \in Users :
        /\ lastCompleted[u] # {}
        /\ lastCommitted[u] # lastCompleted[u]
        /\ \E c \in Calls : committed[c][u] = lastCommitted[u]

\* C14: a store failure is fatal to the pass as a fetch failure is.  When the
\* store read or the store write of a pass fails, the call that runs the pass
\* completes with failure, and so does the promise registered for the pass,
\* which is what the calls waiting for the pass observe.
C14_StoreFailureFailsHandle ==
    \A c \in Calls :
        failed[c] \in {"read", "write"} =>
            /\ result[c] = "rejected"
            /\ promise[c] = "rejected"

\* C15: the registry update is free of interleaving.  When a call that looked
\* up the registry and waited registers its promise, the entry of every user
\* it asks for is still the one it looked up: no other call has written the
\* entry in between.  (A call that finds no entry registers in the step of
\* its lookup.)
C15_RegistryUpdateUninterleaved ==
    [][\A c \in Calls :
          (pc[c] = "waiting" /\ pc'[c] = "fetching") =>
              \A u \in userIds[c] : deviceListUpdates[u] = lookedUp[c][u]]_vars

\* C16: flagUsersOutdated makes the outdated flag durable first.  When it
\* returns, the users it was given are flagged in the store; when the pass it
\* starts is made, and when that pass issues its fetch, they are flagged; and
\* when the store write fails, no pass is made and the registry is as it was.
C16_FlaggedFirst ==
    [][\A f \in Flags :
          /\ (fpc[f] = "marking" /\ fpc'[f] = "returned") => fids[f] \subseteq outdated'
          /\ \A c \in Calls :
                (queuedBy'[c] = f /\ pc[c] # "fetching" /\ pc'[c] = "fetching")
                => userIds'[c] \subseteq outdated'
          /\ (fpc[f] = "marking" /\ fpc'[f] = "failed")
             => /\ deviceListUpdates' = deviceListUpdates
                /\ pc' = pc
                /\ \A c \in Calls : queuedBy'[c] # f]_vars

\* flagUsersOutdated has returned and the pass it started, having waited for
\* an earlier pass, has issued its fetch.
C16_Witness ==
    \E f \in Flags, c \in Calls :
        /\ fpc[f] = "returned"
        /\ queuedBy[c] = f
        /\ pc[c] = "fetching"
        /\ \E a \in Calls : a < c /\ pc[a] = "done"
        /\ userIds[c] \subseteq outdated

\* The listed devices, in every order.
Reorderings(devices) ==
    {[i \in 1..Len(devices) |-> devices[p[i]]] : p \in Permutations(1..Len(devices))}

\* C17: validation within a user is order-independent.  For a pass that runs
\* alone, whose store reads all see the devices stored at its start, the set
\* it commits for a user is the set that evaluating the listed devices yields
\* in every other order, and it is the union of what each listed device
\* yields when evaluated alone: no device is in or out because of a sibling.
C17_OrderIndependent ==
    \A c \in Calls :
        pc[c] = "writing" =>
            LET u == CurrentUser(c)
                listed == CurrentDevices(c)
            IN  /\ validated[c] = ValidatedOf(u, store[u], listed)
                /\ \A other \in Reorderings(listed) :
                      Range(ValidatedOf(u, store[u], other)) = Range(validated[c])
                /\ Range(validated[c]) =
                      UNION {Range(ValidatedOf(u, store[u], <<e>>)) : e \in Range(listed)}

\* A pass is about to commit one of two listed devices: the first listed is
\* rejected for a changed key, the second is accepted.
C17_Witness ==
    \E c \in Calls :
        /\ pc[c] = "writing"
        /\ Len(CurrentDevices(c)) = 2
        /\ StoredWithOtherKey(store[CurrentUser(c)], CurrentDevices(c)[1])
        /\ NamesItself(CurrentUser(c), CurrentDevices(c)[1])
        /\ validated[c] = <<CurrentDevices(c)[2].device>>

\* The pass of call c is between the issue of its fetch and its last commit.
InProgress(c) == pc[c] \in {"fetching", "reading", "verifying", "writing"}

\* C18: mutual exclusion per user.  No two passes that were asked for a
\* common user are in progress at once, also when their calls waited for the
\* same promise.
C18_OnePassPerUser ==
    \A a, b \in Calls :
        (a # b /\ InProgress(a) /\ InProgress(b)) => userIds[a] \cap userIds[b] = {}

\* C19: no check-then-commit race on the pinned key.  Every device a pass
\* commits for a user and device id has the Ed25519 key that is stored for
\* them at the moment of the commit, when one is stored.
C19_CommitAgreesWithStoredKey ==
    [][\A c \in Calls :
          Commits(c) =>
              \A v \in Range(validated[c]) :
                  \A d \in Range(store[CurrentUser(c)]) :
                      d.device_id = v.device_id => d.ed = v.ed]_vars

\* The users that are keys of the response of call c.
ResponseUsers(c) == {resp[c][i].userId : i \in 1..Len(resp[c])}

\* C20: frame of a pass.  The stored devices of a user change only in a
\* commit step of a pass whose response has the user as a key, and that step
\* changes the stored devices of no other user; so a user asked for that the
\* response leaves out keeps its stored devices.  The registry entry of every
\* user asked for is the call's promise once the call has issued its fetch,
\* whatever the response holds.
C20_FrameOfPass ==
    [][/\ \A u \in Users :
             store'[u] # store[u] =>
                 \E c \in Calls :
                     Commits(c) /\ CurrentUser(c) = u /\ u \in ResponseUsers(c)
       /\ \A c \in Calls :
             Commits(c) => \A u \in Users \ {CurrentUser(c)} : store'[u] = store[u]
       /\ \A c \in Calls :
             (pc[c] # "fetching" /\ pc'[c] = "fetching")
             => \A u \in userIds'[c] : deviceListUpdates'[u] = c]_vars

\* A pass was asked for a user with stored devices, its response leaves the
\* user out, and the pass is about to commit another user; the registry entry
\* of the user left out is the pass's promise.
C20_Witness ==
    \E c \in Calls : \E u \in userIds[c] \ ResponseUsers(c) :
        /\ pc[c] = "writing"
        /\ store[u] # <<>>
        /\ deviceListUpdates[u] = c

====
